---- MODULE Spec2Model ----
(***************************************************************************)
(* A model of the natural-language-to-SQL chat assistant:                  *)
(*   main.py            the Streamlit script (one run per user turn),      *)
(*   SQLAgent.py        the seven pipeline stages and the conversation     *)
(*                      memory of one agent,                               *)
(*   DatabaseManager.py connections, catalog queries, data queries.        *)
(* The LLM, the database and the user are the environment: every LLM call  *)
(* returns one response of a small set or raises, every database call      *)
(* succeeds or raises at one of its steps.                                 *)
(***************************************************************************)
EXTENDS Integers, Sequences, FiniteSets, TLC

\* ------------------------------------------------------------------ bounds

\* Chat submissions (runs of main() with a non-empty input) in one session.
MaxTurns == 2

\* ------------------------------------------------------------ text values

\* A text with optional surrounding whitespace: str.strip() drops it.
Txt(s) == [lead |-> FALSE, body |-> s, trail |-> FALSE]

Padded(s) == [lead |-> TRUE, body |-> s, trail |-> TRUE]

Strip(t) == [lead |-> FALSE, body |-> t.body, trail |-> FALSE]

\* dict.update: the keys of upd replace those of state.
Merge(state, upd) == upd @@ state

\* dict.get(key, default)
Get(d, key, default) == IF key \in DOMAIN d THEN d[key] ELSE default

\* ------------------------------------------------------------- exceptions

ExcKinds == {"JSONDecodeError", "ValueError", "KeyError", "OtherError"}

\* issubclass(kind, class) for the classes parse_question names.
IsSubclass(kind, class) ==
    \/ class = "Exception"
    \/ class = kind
    \/ class = "ValueError" /\ kind = "JSONDecodeError"

\* ------------------------------------------------------------------ state

VARIABLES
    messages,        \* st.session_state.messages; <<>> while the key is absent
    mainPc,          \* "idle", or "handling" while main() waits at line 86
    user_input,      \* the text input of the run of main() in progress
    turn,            \* chat submissions begun in this session
    memory,          \* the agent's ConversationBufferMemory: its exchanges
    stage,           \* the pipeline stage to run next, "idle", "done", "raised"
    state,           \* the state dict the stages read and update
    raisedExc,       \* the exception that ended the pipeline run and the stage
                     \* it left, or NoExc
    stagesRun,       \* the stages that have returned in this pipeline run
    llmCalls,        \* LLM calls of each stage in this pipeline run
    llmFailed,       \* the stages whose LLM call raised in this pipeline run
    dbCatalog,       \* the tables the database holds
    openConns,       \* connections opened and not closed
    dbCalls,         \* calls that opened, or tried to open, a database
                     \* connection in this pipeline run
    chatHistoryRead, \* chat_history as parse_question last read it (line 39)
    priorInputs,     \* the inputs of the exchanges that the agents of earlier
                     \* runs of main() recorded
    promptSchema,    \* the schema text of this agent's last prompt that carried one
    promptCatalog,   \* the catalog of the database when that prompt was built
    schemaFetches,   \* get_schema() calls that returned, in this pipeline run
    parseExc,        \* the exception raised inside parse_question's try block
                     \* in this pipeline run, or ""
    genReply,        \* the LLM's reply to generate_sql in this run, or NoReply
    sentToValidator, \* the sql_query texts this agent sent to the validator LLM
    validatorReply,  \* the validator LLM's reply in this pipeline run, or ""
    submitted        \* the query texts this agent handed to cursor.execute

vars == <<messages, mainPc, user_input, turn, memory, stage, state, raisedExc,
          stagesRun, llmCalls, llmFailed, dbCatalog, openConns, dbCalls,
          chatHistoryRead, priorInputs, promptSchema, promptCatalog, schemaFetches, parseExc,
          genReply, sentToValidator, validatorReply, submitted>>

mainVars == <<messages, mainPc, user_input, turn>>

ghostVars == <<chatHistoryRead, priorInputs, promptSchema, promptCatalog,
               schemaFetches, parseExc, genReply, sentToValidator, validatorReply,
               submitted>>

\* --------------------------------------------------------------- the stages

Stages == <<"parse_question", "get_unique_nouns", "generate_sql",
            "validate_and_fix_sql", "execute_sql", "format_results",
            "choose_visualization">>

StageNames == {Stages[i] : i \in 1..Len(Stages)}

StageIndex(s) == CHOOSE i \in 1..Len(Stages) : Stages[i] = s

\* The stage that follows s in the documented order.
NextStage(s) ==
    IF StageIndex(s) = Len(Stages) THEN "done" ELSE Stages[StageIndex(s) + 1]

\* One exchange of the conversation memory: save_context(input, output).
Exchange(question, tag, arg) ==
    [input |-> question, output |-> [tag |-> tag, arg |-> arg]]

NoCalls == [s \in StageNames |-> 0]

NoExc == [stage |-> "", exc |-> ""]

NoReply == [lead |-> FALSE, body |-> "", trail |-> FALSE]

\* ---------------------------------------------------------- DatabaseManager

Tables == {"tA", "tB"}

\* The catalogs the database passes through: no table, or both.
Catalogs == {{}, Tables}

NoTables == <<"No tables found in the database.">>

\* DatabaseManager.py:68-77: one entry per table, its columns under it.
TableLines(tables) ==
    (IF "tA" \in tables THEN <<[table |-> "tA", column |-> "nome | varchar"]>> ELSE <<>>)
    \o (IF "tB" \in tables THEN <<[table |-> "tB", column |-> "ano | int"]>> ELSE <<>>)

\* The steps of get_schema() that can raise ("none": it returns).
SchemaFails == {"none", "connect", "cursor", "t_connect", "t_cursor", "t_query",
                "columns"}

\* get_schema() on a database holding `catalog`, failing at step `fail`:
\* whether it raised, the connections it left open, the catalog queries that
\* ran, the schema text.
GetSchema(fail, catalog) ==
    CASE fail = "connect" ->
           [raised |-> TRUE, exc |-> "DBError", leaked |-> 0, queries |-> 0, schema |-> <<>>]
      [] fail = "cursor" ->
           [raised |-> TRUE, exc |-> "DBError", leaked |-> 1, queries |-> 0, schema |-> <<>>]
      [] fail = "t_connect" ->
           [raised |-> TRUE, exc |-> "DBError", leaked |-> 0, queries |-> 0, schema |-> <<>>]
      [] fail = "t_cursor" ->
           [raised |-> TRUE, exc |-> "DBError", leaked |-> 1, queries |-> 0, schema |-> <<>>]
      [] fail = "t_query" ->
           [raised |-> TRUE, exc |-> "DBError", leaked |-> 0, queries |-> 0, schema |-> <<>>]
      [] fail = "columns" /\ catalog # {} ->
           [raised |-> TRUE, exc |-> "DBError", leaked |-> 0, queries |-> 1, schema |-> <<>>]
      [] OTHER ->
           IF catalog = {}
           THEN [raised |-> FALSE, exc |-> "", leaked |-> 0, queries |-> 1, schema |-> NoTables]
           ELSE [raised |-> FALSE, exc |-> "", leaked |-> 0, queries |-> 2,
                 schema |-> TableLines(catalog)]

\* The steps of execute_query() that can raise.
QueryFails == {"none", "connect", "cursor", "query"}

\* execute_query(): a failing conn.cursor() leaves `cursor` unbound, so the
\* finally block raises at cursor.close() and never reaches conn.close().
ExecuteQuery(fail) ==
    CASE fail = "connect" -> [raised |-> TRUE, exc |-> "DBError", leaked |-> 0]
      [] fail = "cursor"  -> [raised |-> TRUE, exc |-> "UnboundLocalError", leaked |-> 1]
      [] fail = "query"   -> [raised |-> TRUE, exc |-> "DBError", leaked |-> 0]
      [] OTHER            -> [raised |-> FALSE, exc |-> "", leaked |-> 0]

\* ------------------------------------------------------------------ main()

\* A message of the transcript; `turn` records the chat submission during
\* which it was appended (0: before any).
SystemMessage ==
    [role |-> "system", content |-> "You are a helpful assistant.", turn |-> 0]

HumanMessage(c, t) == [role |-> "human", content |-> c, turn |-> t]

AIMessage(c, t) == [role |-> "ai", content |-> c, turn |-> t]

\* What the user types in the k-th chat submission of the session.
Question(k) == <<"q1", "q2", "q3", "q4">>[k]

\* The text input of a run of main(): empty, or the next question.
UserInputs == {"", Question(turn + 1)}

\* The texts the LLM answers a chat or a formatting prompt with.
ChatReplies == {"a1"}

\* main.py:69-72
InitMessages(ms) == IF ms = <<>> THEN <<SystemMessage>> ELSE ms

\* main.py:92-96: the role the display loop gives index i of messages[1:].
DisplayedRole(i) == IF i % 2 = 0 THEN "human" ELSE "ai"

\* A variant that handles the text input whatever it holds.
SubmittedAlways(input) == TRUE

\* main.py:82: `if user_input:` holds for a text that is not empty.
Submitted(input) == input # ""

\* A run of main() up to the chat call: a new agent (line 63), the transcript
\* initialised (69-72), the submission appended (82-83).  With an empty input
\* the run ends here.
MainBegin(input) ==
    /\ mainPc = "idle"
    /\ Submitted(input) => turn < MaxTurns
    /\ user_input' = input
    /\ memory' = <<>>
    /\ priorInputs' = priorInputs \cup {memory[i].input : i \in 1..Len(memory)}
    /\ promptSchema' = <<>>
    /\ promptCatalog' = {}
    /\ sentToValidator' = {}
    /\ validatorReply' = ""
    /\ submitted' = {}
    /\ parseExc' = ""
    /\ genReply' = NoReply
    /\ chatHistoryRead' = <<>>
    /\ stage' = "idle"
    /\ state' = <<>>
    /\ raisedExc' = NoExc
    /\ stagesRun' = <<>>
    /\ llmCalls' = NoCalls
    /\ llmFailed' = {}
    /\ schemaFetches' = NoCalls
    /\ dbCalls' = 0
    /\ IF Submitted(input)
       THEN /\ messages' = Append(InitMessages(messages), HumanMessage(input, turn + 1))
            /\ mainPc' = "handling"
            /\ turn' = turn + 1
       ELSE /\ messages' = InitMessages(messages)
            /\ mainPc' = "idle"
            /\ turn' = turn
    /\ UNCHANGED <<dbCatalog, openConns>>

PipelineAtRest == stage \in {"idle", "done", "raised"}

\* main.py:86-88: the chat model answers and the reply is appended.
ChatReturns(reply) ==
    /\ mainPc = "handling"
    /\ PipelineAtRest
    /\ messages' = Append(messages, AIMessage(reply, turn))
    /\ mainPc' = "idle"
    /\ UNCHANGED <<user_input, turn, memory, stage, state, raisedExc, stagesRun,
                   llmCalls, llmFailed, dbCatalog, openConns, dbCalls>>
    /\ UNCHANGED ghostVars

\* main.py:86: the chat call raises; the run of the script ends there.
ChatRaises ==
    /\ mainPc = "handling"
    /\ PipelineAtRest
    /\ mainPc' = "idle"
    /\ UNCHANGED <<messages, user_input, turn, memory, stage, state, raisedExc,
                   stagesRun, llmCalls, llmFailed, dbCatalog, openConns, dbCalls>>
    /\ UNCHANGED ghostVars

\* The database's catalog changes between two calls of the application
\* (a change while no submission is handled is seen as one made right after
\* the next submission begins).
AlterCatalog(tables) ==
    /\ mainPc = "handling"
    /\ tables # dbCatalog
    /\ dbCatalog' = tables
    /\ UNCHANGED <<messages, mainPc, user_input, turn, memory, stage, state,
                   raisedExc, stagesRun, llmCalls, llmFailed, openConns, dbCalls>>
    /\ UNCHANGED ghostVars

\* ---------------------------------------------------------------- the LLM

LLMRaise(k) == [kind |-> "raise", exc |-> k, text |-> ""]

\* generate_sql's LLM call raising: its reply is no text.
GenRaise(k) == [kind |-> "raise", exc |-> k, text |-> NoReply]

\* A variant that calls the LLM again after a call that raised.
LLMAttemptsWithRetry(outcome) == IF outcome.kind = "raise" THEN 2 ELSE 1

\* llm_manager.invoke(...) as each stage calls it: once, inside or outside a
\* try block, never in a loop.
LLMAttempts(outcome) == 1

\* A stage returns: its result is merged into the state, the next stage is due.
StageReturns(s, upd) ==
    /\ state' = Merge(state, upd)
    /\ stage' = NextStage(s)
    /\ stagesRun' = Append(stagesRun, s)
    /\ raisedExc' = NoExc

\* An exception leaves the stage: the pipeline run ends.
StageRaises(s, exc) ==
    /\ state' = state
    /\ stage' = "raised"
    /\ stagesRun' = stagesRun
    /\ raisedExc' = [stage |-> s, exc |-> exc]

\* The caller of the stages: it hands the submitted question to
\* parse_question and then runs the stages in the documented order.
StartPipeline ==
    /\ mainPc = "handling"
    /\ stage = "idle"
    /\ state' = [question |-> user_input]
    /\ stage' = Stages[1]
    /\ UNCHANGED <<messages, mainPc, user_input, turn, memory, raisedExc,
                   stagesRun, llmCalls, llmFailed, dbCatalog, openConns, dbCalls>>
    /\ UNCHANGED ghostVars

\* ------------------------------------------------------------ parse_question

ParseTexts == {"relevant_json", "relevant2_json", "irrelevant_json",
               "nokey_json", "not_json"}

ParseOutcomes ==
    {LLMRaise(k) : k \in ExcKinds}
    \cup {[kind |-> "text", exc |-> "", text |-> t] : t \in ParseTexts}

TableInfo(t, nouns) == [table_name |-> t, noun_columns |-> nouns]

\* JsonOutputParser().parse(response): the parsed value, or the parser's
\* OutputParserException (a ValueError).
ParseQuestionJson(text) ==
    CASE text = "relevant_json" ->
           [ok |-> TRUE, exc |-> "",
            value |-> [is_relevant |-> TRUE,
                       relevant_tables |-> <<TableInfo("tA", <<"nome">>),
                                             TableInfo("tB", <<>>)>>]]
      [] text = "relevant2_json" ->
           [ok |-> TRUE, exc |-> "",
            value |-> [is_relevant |-> TRUE,
                       relevant_tables |-> <<TableInfo("tA", <<"nome">>),
                                             TableInfo("tB", <<"ano">>)>>]]
      [] text = "irrelevant_json" ->
           [ok |-> TRUE, exc |-> "",
            value |-> [is_relevant |-> FALSE, relevant_tables |-> <<>>]]
      [] text = "nokey_json" ->
           [ok |-> TRUE, exc |-> "", value |-> [relevant_tables |-> <<>>]]
      [] OTHER ->
           [ok |-> FALSE, exc |-> "ValueError", value |-> <<>>]

\* A variant with the specific clauses first and the catch-all last.
ParseHandlersSpecificFirst == <<"JSONDecodeError", "KeyError", "ValueError", "Exception">>

\* The except clauses of parse_question, in the order they are written.
ParseHandlers == <<"Exception", "JSONDecodeError", "KeyError", "ValueError">>

\* The clause that handles an exception: the first whose class matches.
HandlerFor(exc) ==
    LET i == CHOOSE k \in 1..Len(ParseHandlers) :
                /\ IsSubclass(exc, ParseHandlers[k])
                /\ \A j \in 1..(k - 1) : ~IsSubclass(exc, ParseHandlers[j])
    IN ParseHandlers[i]

\* What each except clause stores in memory and returns.
HandlerResult(class) ==
    IF class = "Exception"
    THEN [tag |-> "ERROR parsing question",
          parsed |-> [is_relevant |-> FALSE, relevant_tables |-> <<>>]]
    ELSE [tag |-> class, parsed |-> [query |-> "ERROR"]]

\* Lines 77-106: the LLM call and the parse, and the clause taken on failure.
ParseQuestionTry(llm) ==
    LET parsed == IF llm.kind = "raise"
                  THEN [ok |-> FALSE, exc |-> llm.exc, value |-> <<>>]
                  ELSE ParseQuestionJson(llm.text)
    IN IF parsed.ok
       THEN [failed |-> FALSE, exc |-> "", tag |-> "Parsed Response",
             arg |-> Txt(llm.text), parsed |-> parsed.value]
       ELSE [failed |-> TRUE, exc |-> parsed.exc,
             tag |-> HandlerResult(HandlerFor(parsed.exc)).tag,
             arg |-> Txt(""),
             parsed |-> HandlerResult(HandlerFor(parsed.exc)).parsed]

\* A variant that keeps the first schema text obtained and reuses it.
SchemaForPromptCached(previous, fetched) ==
    IF previous # <<>> THEN previous ELSE fetched

\* The schema text a stage puts in its prompt: the one get_schema() has just
\* returned (`previous` is the text of the last prompt).
SchemaForPrompt(previous, fetched) == fetched

ParseQuestion(db, llm) ==
    /\ mainPc = "handling"
    /\ stage = "parse_question"
    /\ LET question == state.question
           mem1 == Append(memory, Exchange(question, "Processing...", Txt("")))
           sch == GetSchema(db, dbCatalog)
           r == ParseQuestionTry(llm)
       IN /\ chatHistoryRead' = memory
          /\ openConns' = openConns + sch.leaked
          /\ dbCalls' = dbCalls + 1
          /\ IF sch.raised
             THEN /\ memory' = mem1
                  /\ StageRaises("parse_question", sch.exc)
                  /\ UNCHANGED <<llmCalls, llmFailed, promptSchema, promptCatalog,
                                 schemaFetches, parseExc>>
             ELSE /\ memory' = Append(mem1, Exchange(question, r.tag, r.arg))
                  /\ parseExc' = r.exc
                  /\ StageReturns("parse_question", [parsed_question |-> r.parsed])
                  /\ llmCalls' = [llmCalls EXCEPT !["parse_question"] = @ + LLMAttempts(llm)]
                  /\ llmFailed' = IF llm.kind = "raise"
                                  THEN llmFailed \cup {"parse_question"} ELSE llmFailed
                  /\ promptSchema' = SchemaForPrompt(promptSchema, sch.schema)
                  /\ promptCatalog' = dbCatalog
                  /\ schemaFetches' = [schemaFetches EXCEPT !["parse_question"] = @ + 1]
    /\ UNCHANGED <<messages, mainPc, user_input, turn, dbCatalog, priorInputs,
                   genReply, sentToValidator, validatorReply, submitted>>

\* ---------------------------------------------------------- get_unique_nouns

\* The tables of parsed_question whose noun_columns is not empty.
RECURSIVE NounTables(_)
NounTables(tables) ==
    IF tables = <<>> THEN 0
    ELSE (IF Head(tables).noun_columns # <<>> THEN 1 ELSE 0) + NounTables(Tail(tables))

\* execute_query() runs twice per table with noun columns: first outside any
\* try block (line 131), then inside one (line 137).  `failAt` is the call
\* that raises (0: none), `fail` the step of execute_query() that raises.
GetUniqueNouns(failAt, fail) ==
    /\ mainPc = "handling"
    /\ stage = "get_unique_nouns"
    /\ fail # "none"
    /\ LET parsed == state.parsed_question
           n == IF "is_relevant" \in DOMAIN parsed /\ parsed.is_relevant
                THEN NounTables(parsed.relevant_tables) ELSE 0
           q == ExecuteQuery(fail)
       IN /\ failAt \in 0..(2 * n)
          /\ IF "is_relevant" \notin DOMAIN parsed
             THEN /\ StageRaises("get_unique_nouns", "KeyError")
                  /\ UNCHANGED <<openConns, dbCalls>>
             ELSE IF ~parsed.is_relevant
             THEN /\ StageReturns("get_unique_nouns", [unique_nouns |-> <<>>])
                  /\ UNCHANGED <<openConns, dbCalls>>
             ELSE IF failAt = 0
             THEN /\ StageReturns("get_unique_nouns",
                        [unique_nouns |-> IF n = 0 THEN <<>> ELSE <<"noun">>])
                  /\ openConns' = openConns
                  /\ dbCalls' = dbCalls + 2 * n
             ELSE IF failAt % 2 = 1
             THEN /\ StageRaises("get_unique_nouns", q.exc)
                  /\ openConns' = openConns + q.leaked
                  /\ dbCalls' = dbCalls + failAt
             ELSE /\ StageReturns("get_unique_nouns", [unique_nouns |-> <<>>])
                  /\ openConns' = openConns + q.leaked
                  /\ dbCalls' = dbCalls + failAt
    /\ UNCHANGED <<messages, mainPc, user_input, turn, memory, llmCalls, llmFailed,
                   dbCatalog>>
    /\ UNCHANGED ghostVars

\* -------------------------------------------------------------- generate_sql

NOT_RELEVANT == Txt("NOT_RELEVANT")

SQL_ERROR == Txt("ERROR")

GenTexts == {Txt("SELECT_1"), Txt("NOT_ENOUGH_INFO"), Padded("NOT_ENOUGH_INFO")}

GenOutcomes ==
    {GenRaise(k) : k \in {"OtherError"}}
    \cup {[kind |-> "text", exc |-> "", text |-> t] : t \in GenTexts}

\* Line 399: response.strip() == "NOT_ENOUGH_INFO"
IsNotEnoughInfo(response) == Strip(response) = Txt("NOT_ENOUGH_INFO")

\* Lines 395-412: what generate_sql stores in memory and returns for one
\* outcome of its LLM call.
GenerateSqlTry(llm) ==
    IF llm.kind = "raise"
    THEN [tag |-> "Error generating SQL", arg |-> Txt(""), sql_query |-> SQL_ERROR]
    ELSE IF IsNotEnoughInfo(llm.text)
    THEN [tag |-> "LLM couldn't generate enough information", arg |-> Txt(""),
          sql_query |-> NOT_RELEVANT]
    ELSE [tag |-> "response", arg |-> llm.text, sql_query |-> llm.text]

GenerateSql(db, llm) ==
    /\ mainPc = "handling"
    /\ stage = "generate_sql"
    /\ LET question == state.question
           parsed == state.parsed_question
           sch == GetSchema(db, dbCatalog)
           r == GenerateSqlTry(llm)
       IN IF "is_relevant" \notin DOMAIN parsed
          THEN /\ StageRaises("generate_sql", "KeyError")
               /\ UNCHANGED <<memory, openConns, dbCalls, llmCalls, llmFailed, promptSchema,
                              promptCatalog, schemaFetches, genReply>>
          ELSE IF ~parsed.is_relevant
          THEN /\ memory' = Append(memory,
                       Exchange(question, "No relevant tables found", Txt("")))
               /\ StageReturns("generate_sql",
                       [sql_query |-> NOT_RELEVANT, is_relevant |-> FALSE])
               /\ UNCHANGED <<openConns, dbCalls, llmCalls, llmFailed, promptSchema,
                              promptCatalog, schemaFetches, genReply>>
          ELSE IF sch.raised
          THEN /\ StageRaises("generate_sql", sch.exc)
               /\ openConns' = openConns + sch.leaked
               /\ dbCalls' = dbCalls + 1
               /\ UNCHANGED <<memory, llmCalls, llmFailed, promptSchema,
                              promptCatalog, schemaFetches, genReply>>
          ELSE /\ memory' = Append(memory, Exchange(question, r.tag, r.arg))
               /\ StageReturns("generate_sql", [sql_query |-> r.sql_query])
               /\ openConns' = openConns + sch.leaked
               /\ dbCalls' = dbCalls + 1
               /\ llmCalls' = [llmCalls EXCEPT !["generate_sql"] = @ + LLMAttempts(llm)]
               /\ llmFailed' = IF llm.kind = "raise"
                               THEN llmFailed \cup {"generate_sql"} ELSE llmFailed
               /\ promptSchema' = SchemaForPrompt(promptSchema, sch.schema)
               /\ promptCatalog' = dbCatalog
               /\ schemaFetches' = [schemaFetches EXCEPT !["generate_sql"] = @ + 1]
               /\ genReply' = llm.text
    /\ UNCHANGED <<messages, mainPc, user_input, turn, dbCatalog, chatHistoryRead,
                   priorInputs, parseExc, sentToValidator, validatorReply,
                   submitted>>

\* ------------------------------------------------------ validate_and_fix_sql

NULL == "null"

ValidatorTexts == {"valid_null", "valid_only", "valid_with_issues",
                   "invalid_fixed", "invalid_nofix", "not_json"}

ValidatorOutcomes ==
    {LLMRaise(k) : k \in {"OtherError"}}
    \cup {[kind |-> "text", exc |-> "", text |-> t] : t \in ValidatorTexts}

\* output_parser.parse(response) on the validator's replies.
ValidatorJson(text) ==
    CASE text = "valid_null" ->
           [ok |-> TRUE, value |-> [valid |-> TRUE, issues |-> NULL,
                                    corrected_query |-> Txt("None")]]
      [] text = "valid_only" ->
           [ok |-> TRUE, value |-> [valid |-> TRUE]]
      [] text = "valid_with_issues" ->
           [ok |-> TRUE, value |-> [valid |-> TRUE, issues |-> "style",
                                    corrected_query |-> Txt("SELECT_2")]]
      [] text = "invalid_fixed" ->
           [ok |-> TRUE, value |-> [valid |-> FALSE, issues |-> "no such column",
                                    corrected_query |-> Txt("SELECT_2")]]
      [] text = "invalid_nofix" ->
           [ok |-> TRUE, value |-> [valid |-> FALSE, issues |-> "no such column"]]
      [] OTHER ->
           [ok |-> FALSE, value |-> <<>>]

\* Lines 507-514: the stage's result for a parsed reply.
ValidatorResult(sql_query, result) ==
    IF Get(result, "valid", FALSE) /\ Get(result, "issues", NULL) = NULL
    THEN [sql_query |-> sql_query, sql_valid |-> TRUE]
    ELSE [sql_query |-> Get(result, "corrected_query", sql_query),
          sql_valid |-> Get(result, "valid", FALSE),
          sql_issues |-> Get(result, "issues", "[]")]

\* A variant without the NOT_RELEVANT short-circuit.
ValidatorSkipsNothing(sql_query) == FALSE

\* Lines 420-425: the sql_query values the stage returns at once, without a
\* schema fetch or an LLM call.
ValidatorSkips(sql_query) == sql_query = NOT_RELEVANT

ValidateAndFixSql(db, llm) ==
    /\ mainPc = "handling"
    /\ stage = "validate_and_fix_sql"
    /\ LET sql_query == state.sql_query
           sch == GetSchema(db, dbCatalog)
           parsed == ValidatorJson(llm.text)
       IN IF ValidatorSkips(sql_query)
          THEN /\ StageReturns("validate_and_fix_sql",
                       [sql_query |-> sql_query, sql_valid |-> FALSE])
               /\ UNCHANGED <<openConns, dbCalls, llmCalls, llmFailed, promptSchema,
                              promptCatalog, schemaFetches, sentToValidator,
                              validatorReply>>
          ELSE IF sch.raised
          THEN /\ StageRaises("validate_and_fix_sql", sch.exc)
               /\ openConns' = openConns + sch.leaked
               /\ dbCalls' = dbCalls + 1
               /\ UNCHANGED <<llmCalls, llmFailed, promptSchema, promptCatalog,
                              schemaFetches, sentToValidator, validatorReply>>
          ELSE /\ openConns' = openConns + sch.leaked
               /\ dbCalls' = dbCalls + 1
               /\ llmCalls' = [llmCalls EXCEPT
                                 !["validate_and_fix_sql"] = @ + LLMAttempts(llm)]
               /\ llmFailed' = IF llm.kind = "raise"
                               THEN llmFailed \cup {"validate_and_fix_sql"}
                               ELSE llmFailed
               /\ promptSchema' = SchemaForPrompt(promptSchema, sch.schema)
               /\ promptCatalog' = dbCatalog
               /\ schemaFetches' = [schemaFetches EXCEPT
                                      !["validate_and_fix_sql"] = @ + 1]
               /\ sentToValidator' = sentToValidator \cup {sql_query}
               /\ validatorReply' = llm.text
               /\ IF llm.kind = "raise" THEN StageRaises("validate_and_fix_sql", llm.exc)
                  ELSE IF ~parsed.ok THEN StageRaises("validate_and_fix_sql", "ValueError")
                  ELSE StageReturns("validate_and_fix_sql",
                            ValidatorResult(sql_query, parsed.value))
    /\ UNCHANGED <<messages, mainPc, user_input, turn, memory, dbCatalog,
                   chatHistoryRead, priorInputs, parseExc, genReply, submitted>>

\* --------------------------------------------------------------- execute_sql

\* The DataFrames a successful query yields, by their number of rows.
DataFrames == {"DataFrame(0 rows)", "DataFrame(2 rows)"}

\* A variant that sends every sql_query to the database.
ExecuteSkipsNothing(query) == FALSE

\* Lines 520-521: the queries that are answered without the database.
ExecuteSkips(query) == query = NOT_RELEVANT

\* Lines 523-539: the connection is opened inside the try block and never
\* closed; `fail` is the step that raises, `df` the result of a query that
\* does not.
ExecuteSqlTry(fail, df) ==
    CASE fail = "connect" ->
           [upd |-> [error |-> "DBError"], leaked |-> 0, executed |-> FALSE]
      [] fail = "cursor" ->
           [upd |-> [error |-> "DBError"], leaked |-> 1, executed |-> FALSE]
      [] fail = "query" ->
           [upd |-> [error |-> "DBError"], leaked |-> 1, executed |-> TRUE]
      [] OTHER ->
           [upd |-> [results |-> df], leaked |-> 1, executed |-> TRUE]

ExecuteSql(fail, df) ==
    /\ mainPc = "handling"
    /\ stage = "execute_sql"
    /\ LET query == state.sql_query
           r == ExecuteSqlTry(fail, df)
       IN IF ExecuteSkips(query)
          THEN /\ StageReturns("execute_sql", [results |-> "NOT_RELEVANT"])
               /\ UNCHANGED <<openConns, dbCalls, submitted>>
          ELSE /\ StageReturns("execute_sql", r.upd)
               /\ openConns' = openConns + r.leaked
               /\ dbCalls' = dbCalls + 1
               /\ submitted' = IF r.executed THEN submitted \cup {query} ELSE submitted
    /\ UNCHANGED <<messages, mainPc, user_input, turn, memory, llmCalls, llmFailed,
                   dbCatalog, chatHistoryRead, priorInputs, promptSchema,
                   promptCatalog, schemaFetches, parseExc, genReply, sentToValidator,
                   validatorReply>>

\* ------------------------------------------------------------ format_results

RETRIEVE_ERROR == "An error occurred while retrieving the data. Please try again."

ONLY_RELEVANT == "Sorry, I can only give answers relevant to the database."

FORMAT_ERROR == "An error occurred while formatting the response."

FormatOutcomes ==
    {LLMRaise(k) : k \in {"OtherError"}}
    \cup {[kind |-> "text", exc |-> "", text |-> t] : t \in ChatReplies}

\* A variant without the check for a missing 'results' key: None goes to the
\* formatting prompt.
FormatResultsOnUnchecked(st, llm) ==
    IF "results" \in DOMAIN st /\ st.results = "NOT_RELEVANT"
    THEN [raised |-> FALSE, exc |-> "", calls |-> 0, failed |-> FALSE,
          tag |-> "No relevant answer found for this question", arg |-> Txt(""),
          answer |-> "Sorry, I can only give answers relevant to the database."]
    ELSE IF "results" \in DOMAIN st /\ st.results \in {"DataFrame(0 rows)", "DataFrame(2 rows)"}
    THEN [raised |-> TRUE, exc |-> "ValueError", calls |-> 0, failed |-> FALSE,
          tag |-> "", arg |-> Txt(""), answer |-> ""]
    ELSE IF llm.kind = "raise"
    THEN [raised |-> FALSE, exc |-> "", calls |-> 1, failed |-> TRUE,
          tag |-> "ERROR: Failed to format results", arg |-> Txt(""),
          answer |-> "An error occurred while formatting the response."]
    ELSE [raised |-> FALSE, exc |-> "", calls |-> 1, failed |-> FALSE,
          tag |-> "Formatted Answer", arg |-> Txt(llm.text), answer |-> llm.text]

\* Lines 543-574.  `results == "NOT_RELEVANT"` on a DataFrame compares
\* element by element, and the truth value of the DataFrame it yields is a
\* ValueError, raised outside the try block.
FormatResultsOn(st, llm) ==
    IF "results" \notin DOMAIN st
    THEN [raised |-> FALSE, exc |-> "", calls |-> 0, failed |-> FALSE,
          tag |-> "ERROR: 'results' key is missing in state", arg |-> Txt(""),
          answer |-> RETRIEVE_ERROR]
    ELSE IF st.results = "NOT_RELEVANT"
    THEN [raised |-> FALSE, exc |-> "", calls |-> 0, failed |-> FALSE,
          tag |-> "No relevant answer found for this question", arg |-> Txt(""),
          answer |-> ONLY_RELEVANT]
    ELSE IF st.results \in DataFrames
    THEN [raised |-> TRUE, exc |-> "ValueError", calls |-> 0, failed |-> FALSE,
          tag |-> "", arg |-> Txt(""), answer |-> ""]
    ELSE IF llm.kind = "raise"
    THEN [raised |-> FALSE, exc |-> "", calls |-> LLMAttempts(llm), failed |-> TRUE,
          tag |-> "ERROR: Failed to format results", arg |-> Txt(""),
          answer |-> FORMAT_ERROR]
    ELSE [raised |-> FALSE, exc |-> "", calls |-> LLMAttempts(llm), failed |-> FALSE,
          tag |-> "Formatted Answer", arg |-> Txt(llm.text), answer |-> llm.text]

FormatResults(llm) ==
    /\ mainPc = "handling"
    /\ stage = "format_results"
    /\ LET question == Get(state, "question", "Unknown Question")
           r == FormatResultsOn(state, llm)
       IN /\ llmCalls' = [llmCalls EXCEPT !["format_results"] = @ + r.calls]
          /\ llmFailed' = IF r.failed THEN llmFailed \cup {"format_results"}
                          ELSE llmFailed
          /\ IF r.raised
             THEN StageRaises("format_results", r.exc) /\ memory' = memory
             ELSE /\ StageReturns("format_results", [answer |-> r.answer])
                  /\ memory' = Append(memory, Exchange(question, r.tag, r.arg))
    /\ UNCHANGED <<messages, mainPc, user_input, turn, dbCatalog, openConns, dbCalls>>
    /\ UNCHANGED ghostVars

\* ------------------------------------------------------ choose_visualization

Line(parts) == parts

VizTexts == {
    <<Line(<<Txt("Recommended Visualization"), Padded("bar")>>),
      Line(<<Txt("Reason"), Txt("categories")>>)>>,
    <<Line(<<Txt("bar")>>), Line(<<Txt("Reason"), Txt("categories")>>)>>,
    <<Line(<<Txt("Recommended Visualization"), Txt("none")>>),
      Line(<<Txt("no reason given")>>)>>,
    <<Line(<<Txt("Recommended Visualization"), Txt("pie")>>)>> }

VizOutcomes ==
    {LLMRaise(k) : k \in {"OtherError"}}
    \cup {[kind |-> "text", exc |-> "", text |-> t] : t \in VizTexts}

\* Lines 622-628: lines[0].split(': ')[1] and lines[1].split(': ')[1].
VizParse(lines) ==
    IF Len(lines) >= 1 /\ Len(lines[1]) >= 2 /\ Len(lines) >= 2 /\ Len(lines[2]) >= 2
    THEN [ok |-> TRUE,
          value |-> [visualization |-> Strip(lines[1][2]),
                     visualization_reason |-> lines[2][2]]]
    ELSE [ok |-> FALSE, value |-> <<>>]

\* Lines 578-628: the LLM call and the parse are not inside a try block.
ChooseVisualizationOn(st, llm) ==
    IF "results" \in DOMAIN st /\ st.results = "NOT_RELEVANT"
    THEN [raised |-> FALSE, exc |-> "", calls |-> 0, failed |-> FALSE,
          upd |-> [visualization |-> Txt("none"),
                   visualization_reasoning |->
                       Txt("No visualization needed for irrelevant questions.")]]
    ELSE IF llm.kind = "raise"
    THEN [raised |-> TRUE, exc |-> llm.exc, calls |-> LLMAttempts(llm),
          failed |-> TRUE, upd |-> <<>>]
    ELSE IF ~VizParse(llm.text).ok
    THEN [raised |-> TRUE, exc |-> "IndexError", calls |-> LLMAttempts(llm),
          failed |-> FALSE, upd |-> <<>>]
    ELSE [raised |-> FALSE, exc |-> "", calls |-> LLMAttempts(llm),
          failed |-> FALSE, upd |-> VizParse(llm.text).value]

ChooseVisualization(llm) ==
    /\ mainPc = "handling"
    /\ stage = "choose_visualization"
    /\ LET r == ChooseVisualizationOn(state, llm)
       IN /\ llmCalls' = [llmCalls EXCEPT !["choose_visualization"] = @ + r.calls]
          /\ llmFailed' = IF r.failed THEN llmFailed \cup {"choose_visualization"}
                          ELSE llmFailed
          /\ IF r.raised THEN StageRaises("choose_visualization", r.exc)
             ELSE StageReturns("choose_visualization", r.upd)
    /\ UNCHANGED <<messages, mainPc, user_input, turn, memory, dbCatalog, openConns, dbCalls>>
    /\ UNCHANGED ghostVars

\* ------------------------------------------------------- the specification

Init ==
    /\ messages = <<>>
    /\ mainPc = "idle"
    /\ user_input = ""
    /\ turn = 0
    /\ memory = <<>>
    /\ stage = "idle"
    /\ state = <<>>
    /\ raisedExc = NoExc
    /\ stagesRun = <<>>
    /\ llmCalls = NoCalls
    /\ llmFailed = {}
    /\ dbCatalog \in Catalogs
    /\ openConns = 0
    /\ dbCalls = 0
    /\ chatHistoryRead = <<>>
    /\ priorInputs = {}
    /\ promptSchema = <<>>
    /\ promptCatalog = {}
    /\ schemaFetches = NoCalls
    /\ parseExc = ""
    /\ genReply = NoReply
    /\ sentToValidator = {}
    /\ validatorReply = ""
    /\ submitted = {}

Next ==
    \/ \E input \in UserInputs : MainBegin(input)
    \/ \E reply \in ChatReplies : ChatReturns(reply)
    \/ ChatRaises
    \/ \E tables \in Catalogs : AlterCatalog(tables)
    \/ StartPipeline
    \/ \E db \in SchemaFails, llm \in ParseOutcomes : ParseQuestion(db, llm)
    \/ \E failAt \in 0..4, fail \in QueryFails : GetUniqueNouns(failAt, fail)
    \/ \E db \in SchemaFails, llm \in GenOutcomes : GenerateSql(db, llm)
    \/ \E db \in SchemaFails, llm \in ValidatorOutcomes : ValidateAndFixSql(db, llm)
    \/ \E fail \in QueryFails, df \in DataFrames : ExecuteSql(fail, df)
    \/ \E llm \in FormatOutcomes : FormatResults(llm)
    \/ \E llm \in VizOutcomes : ChooseVisualization(llm)

Spec == Init /\ [][Next]_vars

\* ------------------------------------------------------------------ claims

Last(seq) == seq[Len(seq)]

\* C1: whenever main() appends an AI message for a submission, the seven
\* stages have run in order on the submitted question and the message is the
\* answer format_results produced.
C1_ReplyIsPipelineAnswer ==
    [][(/\ Len(messages') = Len(messages) + 1
        /\ Last(messages').role = "ai")
       => (/\ stagesRun = Stages
           /\ state.question = user_input
           /\ Last(messages').content = state.answer)]_vars

\* The errors of an LLM call or of the parse of its response.
LLMOrParseErrors == {"OtherError", "ValueError", "IndexError"}

\* C2: no failure of the LLM call or of the parse of its response leaves
\* validate_and_fix_sql or choose_visualization as an exception.
C2_ValidatorAndVisualizationCatch ==
    ~(/\ stage = "raised"
      /\ raisedExc.stage \in {"validate_and_fix_sql", "choose_visualization"}
      /\ raisedExc.exc \in LLMOrParseErrors)

\* parse_question has yielded is_relevant = false in this run.
ParsedNotRelevant ==
    /\ "parsed_question" \in DOMAIN state
    /\ "is_relevant" \in DOMAIN state.parsed_question
    /\ ~state.parsed_question.is_relevant

\* generate_sql has received NOT_ENOUGH_INFO, whitespace aside, in this run.
RepliedNotEnoughInfo == genReply.body = "NOT_ENOUGH_INFO"

\* C3: after is_relevant = false or a NOT_ENOUGH_INFO reply no later stage
\* raises, each later stage returns its fallback, and the run ends with
\* sql_query NOT_RELEVANT, sql_valid false, results NOT_RELEVANT, the
\* only-relevant answer and visualization none.
C3_NotRelevantFallbacks ==
    (ParsedNotRelevant \/ RepliedNotEnoughInfo)
    => /\ stage # "raised"
       /\ "sql_query" \in DOMAIN state => state.sql_query = NOT_RELEVANT
       /\ "sql_valid" \in DOMAIN state => state.sql_valid = FALSE
       /\ "results" \in DOMAIN state => state.results = "NOT_RELEVANT"
       /\ "answer" \in DOMAIN state => state.answer = ONLY_RELEVANT
       /\ "visualization" \in DOMAIN state => state.visualization = Txt("none")
       /\ stage = "done"
          => {"sql_query", "sql_valid", "results", "answer", "visualization"}
                \subseteq DOMAIN state

C3_Witness ==
    /\ stage = "done"
    /\ genReply = Padded("NOT_ENOUGH_INFO")
    /\ state.visualization = Txt("none")

\* C4: once generate_sql has returned sql_query = ERROR, the validator LLM is
\* not sent it, sql_valid is false, and execute_sql hands nothing to the
\* database.
C4_ErrorQueryIsFallback ==
    "generate_sql" \in llmFailed
    => /\ SQL_ERROR \notin sentToValidator
       /\ "sql_valid" \in DOMAIN state => state.sql_valid = FALSE
       /\ submitted = {}

\* C5: when execute_sql's connection or query raises, the state gets an
\* 'error' entry and no 'results' entry, and format_results returns the
\* retrieval-error answer without an LLM call and records the error in memory.
C5_ExecuteErrorFallback ==
    "error" \in DOMAIN state
    => /\ "results" \notin DOMAIN state
       /\ ~(stage = "raised" /\ raisedExc.stage \in {"execute_sql", "format_results"})
       /\ "answer" \in DOMAIN state
          => /\ state.answer = RETRIEVE_ERROR
             /\ llmCalls["format_results"] = 0
             /\ Last(memory).output.tag = "ERROR: 'results' key is missing in state"

C5_Witness ==
    /\ "error" \in DOMAIN state
    /\ "answer" \in DOMAIN state
    /\ state.sql_query = Txt("SELECT_2")

\* C6: between runs of main() the transcript is the system message followed
\* by alternating human and AI messages, each AI message appended in the
\* same submission as the human message before it, so that the display loop
\* gives every message its role.
C6_TranscriptAlternates ==
    (mainPc = "idle" /\ messages # <<>>)
    => /\ messages[1].role = "system"
       /\ \A i \in 2..Len(messages) :
            /\ messages[i].role = DisplayedRole(i - 2)
            /\ messages[i].role = "ai" => messages[i - 1].turn = messages[i].turn

\* C7: in one pipeline run every stage calls the LLM at most once, a failed
\* call included.
C7_AtMostOneLLMCall ==
    /\ \A s \in StageNames : llmCalls[s] <= 1
    /\ \A s \in llmFailed : llmCalls[s] = 1

C7_Witness ==
    /\ "generate_sql" \in llmFailed
    /\ "validate_and_fix_sql" \in llmFailed
    /\ llmCalls["parse_question"] = 1

\* C8: the chat_history parse_question reads holds the exchanges recorded
\* while earlier submissions of the session were handled.
C8_MemoryKeptAcrossTurns ==
    stage \notin {"idle", "parse_question"}
    => \A q \in priorInputs :
          \E i \in 1..Len(chatHistoryRead) : chatHistoryRead[i].input = q

\* The stages that put the schema in their prompt.
SchemaStages == {"parse_question", "generate_sql", "validate_and_fix_sql"}

\* C9: a stage that prompts the LLM with the schema has fetched it with
\* get_schema() in that invocation, and the text in the prompt is the one
\* the catalog queries gave for the database as it was then.
C9_SchemaFetchedEachInvocation ==
    /\ \A s \in SchemaStages : llmCalls[s] >= 1 => schemaFetches[s] = 1
    /\ \A s \in SchemaStages : llmCalls[s] = 0 => schemaFetches[s] = 0
    /\ promptSchema # <<>> => promptSchema = GetSchema("none", promptCatalog).schema

C9_Witness ==
    /\ \A s \in SchemaStages : schemaFetches[s] = 1
    /\ promptSchema = NoTables
    /\ dbCatalog = Tables

FallbackParsedQuestion == [is_relevant |-> FALSE, relevant_tables |-> <<>>]

\* C10: whatever exception the LLM call or the JSON parse raises inside
\* parse_question, the parsed_question returned is {is_relevant: false,
\* relevant_tables: []}.
C10_ParseFailureFallback ==
    parseExc # ""
    => /\ "parsed_question" \in DOMAIN state
       /\ "is_relevant" \in DOMAIN state.parsed_question
       /\ state.parsed_question = FallbackParsedQuestion

C10_Witness ==
    /\ parseExc = "JSONDecodeError"
    /\ stage = "generate_sql"

\* The exceptions a failing execute_query() raises.
QueryErrors == {"DBError", "UnboundLocalError"}

\* C11: no failure of a SELECT DISTINCT query leaves get_unique_nouns as an
\* exception.
C11_NounQueryFailureCaught ==
    ~(/\ stage = "raised"
      /\ raisedExc.stage = "get_unique_nouns"
      /\ raisedExc.exc \in QueryErrors)

\* C12: a parsed_question without the key is_relevant does not make
\* get_unique_nouns raise.
C12_MissingRelevanceIsNotRelevant ==
    ("parsed_question" \in DOMAIN state
     /\ "is_relevant" \notin DOMAIN state.parsed_question)
    => ~(stage = "raised" /\ raisedExc.stage = "get_unique_nouns")

\* The validator's parsed reply reports valid = true.
ValidatorSaidValid ==
    /\ validatorReply # ""
    /\ ValidatorJson(validatorReply).ok
    /\ Get(ValidatorJson(validatorReply).value, "valid", FALSE)

\* C13: when the validator reports valid = true, validate_and_fix_sql
\* returns the sql_query it was given, whatever the issues field holds.
C13_ValidQueryUnchanged ==
    (ValidatorSaidValid /\ "sql_valid" \in DOMAIN state)
    => state.sql_query \in sentToValidator

\* execute_sql has succeeded with a DataFrame in this run.
HasDataFrame == "results" \in DOMAIN state /\ state.results \in DataFrames

\* C14: on a DataFrame result format_results does not raise; it calls the
\* LLM once, returns the response as the answer and records it in memory as
\* the formatted answer.
C14_DataFrameIsFormatted ==
    HasDataFrame
    => /\ ~(stage = "raised" /\ raisedExc.stage = "format_results")
       /\ "answer" \in DOMAIN state
          => /\ llmCalls["format_results"] = 1
             /\ Last(memory).output.tag = "Formatted Answer"
             /\ Last(memory).output.arg = Txt(state.answer)

\* The stages whose only database calls are get_schema() and
\* execute_query() of DatabaseManager.
ManagerStages == {"parse_question", "get_unique_nouns", "generate_sql",
                  "validate_and_fix_sql"}

\* C15: a DatabaseManager method leaves no connection open, whether it
\* returns or raises, and the exception it raises is the original failure.
C15_ManagerClosesConnections ==
    [][(stage \in ManagerStages)
       => (/\ openConns' = openConns
           /\ raisedExc'.exc # "UnboundLocalError")]_vars

\* C16: execute_sql leaves no connection open when it returns.
C16_ExecuteSqlClosesConnection ==
    [][stage = "execute_sql" => openConns' = openConns]_vars

\* The stages after parse_question.
LaterStages == StageNames \ {"parse_question"}

\* C17: once parsed_question has is_relevant = false, no stage after
\* parse_question opens a database connection, runs a catalog or data query,
\* or calls the LLM.
C17_NotRelevantTouchesNothing ==
    [][(ParsedNotRelevant /\ stage \in LaterStages)
       => (/\ dbCalls' = dbCalls
           /\ openConns' = openConns
           /\ schemaFetches' = schemaFetches
           /\ submitted' = submitted
           /\ sentToValidator' = sentToValidator
           /\ llmCalls' = llmCalls)]_vars

C17_Witness ==
    /\ ParsedNotRelevant
    /\ parseExc = ""
    /\ stage = "done"
    /\ dbCalls = 1
    /\ \A s \in LaterStages : llmCalls[s] = 0

\* C18: a run of main() with an empty text input appends nothing to the
\* transcript, which is left as it was or initialised to the system message,
\* and ends without reaching the chat call.
C18_EmptyInputChangesNothing ==
    [][(mainPc = "idle" /\ user_input' = "")
       => (/\ messages' = InitMessages(messages)
           /\ mainPc' = "idle"
           /\ turn' = turn
           /\ llmCalls' = NoCalls)]_vars

C18_Witness ==
    /\ mainPc = "idle"
    /\ user_input = ""
    /\ turn = 1
    /\ Len(messages) = 3

====
